---- MODULE Spec2Model ----
(***************************************************************************)
(* Model of the nRF Cloud provisioning utilities (python/modem-firmware-   *)
(* 1.3+): the AT response scanner wait_for_prompt of diap.py and           *)
(* certifcate_installer.py, and the bulk provisioning flow of              *)
(* nrf_cloud_provision.py (do_provisioning, update_device_list_err,        *)
(* update_device_list_ok).                                                 *)
(*                                                                         *)
(* Four specifications share the variables:                                *)
(*   SpecWfp    one call of wait_for_prompt, a step per loop iteration;    *)
(*   SpecRecon  update_device_list_err / update_device_list_ok applied to  *)
(*              a freshly read device list;                                *)
(*   SpecProv   one run of do_provisioning;                                *)
(*   SpecPoll   one call of a status poll loop, get_provisioning_results   *)
(*              or wait_for_cmd_status (diap.py), a step per loop turn.    *)
(* Byte strings are sequences of one-character strings, so that Python's   *)
(* `tok in line` is substring containment and `line == b'\r\n'` is         *)
(* equality of sequences.                                                  *)
(***************************************************************************)
EXTENDS Integers, Sequences, FiniteSets, TLC

VARIABLES
    \* ---- wait_for_prompt (diap.py 286-336, certifcate_installer.py 195-245)
    wpc,        \* position: "idle", "scan" (loop head), "post", "returned", "raised"
    ser,        \* TRUE: serial line source; FALSE: RTT line source (ser is None)
    val1,       \* success token
    val2,       \* failure token or None
    store,      \* capture token or None
    timeout,    \* remaining time budget (the local `timeout`)
    found,      \* local `found`
    retval,     \* local `retval`
    output,     \* local `output`: captured line or None
    line,       \* local `line`: last line read, Unbound before the first read
    rtt_lines,  \* lines returned by rtt_interface.readlines_at_rtt
    lf_done,    \* global lf_done
    echoed,     \* lines written to sys.stdout as '<- ' + line, in order
    printed,    \* error messages printed after the loop
    ret,        \* value returned to the caller: <<retval, output>>
    reads,      \* number of reads of the line source made by this call
    timeout0,   \* the timeout argument of the call
    \* ---- nrf_cloud_provision.py
    ppc,        \* position in do_provisioning / in the reconciliation harness
    device_list,\* list of [id, res] records, or NoList (Python None)
    dev_before, \* the device list as read from the CSV (before stamping)
    err_json,   \* error map: sequence of <<message, index list>> in dict order
    warnings,   \* indices printed as "Reported device index out of range"
    err_count,  \* local `err_count`
    job_status, \* bulk_results_json["status"] (line 306), "none" before
    report,     \* report handed to save_or_print, kind "none" before
    result,     \* ProvisionResult returned, "none" before
    prov_result,\* prov_result.status_code (line 288), 0 before the call
    error_results, \* status code and text of the error summary download
    parsed,     \* what parse_err_msg returned at line 316
    csv_rows,   \* row_count of the CSV file (line 186), -1 before it is read
    do_check,   \* argument `do_check` of do_provisioning
    fetch_result, \* status code of fetch_device (line 273), 0 before the call
    \* ---- the poll loops: get_provisioning_results (nrf_cloud_provision.py
    \*      84-105) and wait_for_cmd_status (diap.py 475-500)
    loop,       \* which of the two loops runs
    lpc,        \* "idle", "loop" (at the head of a turn), "returned"
    prev_status,\* local `prev_status` of wait_for_cmd_status
    polls,      \* number of status fetches made
    fetches,    \* the responses fetched so far, in order
    log,        \* statuses printed as "Provisioning status: " / "Command status: "
    loop_ret,   \* value the loop returned
    events,     \* the sleeps and fetches of the loop, in order
    \* ---- a session: main of diap.py or of certifcate_installer.py
    script,     \* which program runs: "diap" or "installer"
    spc,        \* source line of the statement about to run, or how main ended
    is_gateway, \* global `is_gateway` (args.gateway), diap.py only
    args_delete,\* args.delete, certifcate_installer.py only
    attempts,   \* number of times getpass asked for the password (line 280)
    scanning,   \* a call of wait_for_prompt has begun and not returned
    ops,        \* writes to the device and returned waits, in order
    \* ---- the provisioning CSV of diap.py / iotbank_create_credentials.py
    csv_exists, \* os.path.isfile of the provisioning CSV
    csv_file,   \* the device ids (first column) of its rows, in order
    csv_calls   \* number of calls made on the file
vars == <<wpc, ser, val1, val2, store, timeout, found, retval, output, line,
          rtt_lines, lf_done, echoed, printed, ret, reads, timeout0,
          ppc, device_list, dev_before, err_json, warnings, err_count,
          job_status, report, result, prov_result, error_results, parsed,
          csv_rows, do_check, fetch_result,
          loop, lpc, prev_status, polls, fetches, log, loop_ret, events,
          script, spc, is_gateway, args_delete, attempts, scanning, ops,
          csv_exists, csv_file, csv_calls>>
wfpVars == <<wpc, ser, val1, val2, store, timeout, found, retval, output, line,
             rtt_lines, lf_done, echoed, printed, ret, reads, timeout0>>
provVars == <<ppc, device_list, dev_before, err_json, warnings, err_count,
              job_status, report, result, prov_result, error_results, parsed,
              csv_rows, do_check, fetch_result>>
pollVars == <<loop, lpc, prev_status, polls, fetches, log, loop_ret, events>>
sessVars == <<script, spc, is_gateway, args_delete, attempts, scanning, ops>>
csvVars == <<csv_exists, csv_file, csv_calls>>

(***************************************************************************)
(* Bounds of the model.                                                    *)
(***************************************************************************)
\* largest finite timeout argument tried
MaxTimeout == 2
\* reads of the serial line source explored in one call
MaxReads == 3
\* lines readlines_at_rtt may return
MaxRttLines == 2
\* records in a provisioning CSV
MaxBatch == 3
\* status fetches explored in the poll loop
MaxPolls == 4
\* times a session asks for the gateway password again
MaxAttempts == 2
\* calls made on the provisioning CSV
MaxCalls == 3

(***************************************************************************)
(* Byte strings.                                                           *)
(***************************************************************************)
\* Python None for a token / a line: no byte string has the element "None".
None == <<"None">>
\* The local `line` before its first assignment.
Unbound == <<"unbound">>

CR == "\r"
LF == "\n"
CRLF == <<CR, LF>>

\* serial_timeout = 1: the read slice of ser.readline()
serial_timeout == 1

\* Python `tok in line` on bytes: substring containment.
IsIn(tok, l) ==
    \E i \in 0..(Len(l) - Len(tok)) : SubSeq(l, i + 1, i + Len(tok)) = tok

\* Tokens passed at the call sites.
TokOK == <<"O", "K">>
TokOKCR == <<"O", "K", CR>>
TokERROR == <<"E", "R", "R", "O", "R">>
TokATTEST == <<"%", "A", "T", "T", "E", "S", "T", "T", "O", "K", "E", "N", ":", " ">>

Val1s == {TokOK, TokOKCR}
Val2s == {None, TokERROR}
Stores == {None, TokATTEST, CRLF}
\* -1 stands for a negative timeout, the budget that is never decremented.
Timeouts == {-1} \cup (0..MaxTimeout)

\* What the device may send as one line (ser.readline() returns b'' when the
\* read slice elapses without data).
LineEmpty == <<>>
LineOK == TokOK \o CRLF
LineERROR == TokERROR \o CRLF
LineBoth == TokERROR \o <<" ">> \o TokOK \o CRLF
LineToken == TokATTEST \o <<"\"", "t", "\"">> \o CRLF
LineTokenOK == TokATTEST \o TokOK \o CRLF
LineImei == <<"3", "5">> \o CRLF
LinePartial == <<"+", "C">>
Lines == {LineEmpty, CRLF, LineOK, LineERROR, LineBoth, LineToken,
          LineTokenOK, LineImei, LinePartial}

RECURSIVE SeqsUpTo(_, _)
SeqsUpTo(S, n) ==
    IF n = 0 THEN {<<>>}
    ELSE LET shorter == SeqsUpTo(S, n - 1)
         IN shorter \cup {Append(s, x) : s \in {t \in shorter : Len(t) = n - 1}, x \in S}

(***************************************************************************)
(* wait_for_prompt                                                         *)
(***************************************************************************)
\* Mutant of LoopCond: a captured line ends the scan.
LoopCond_CaptureEnds == ~found /\ timeout # 0 /\ output = None

\* The loop condition `not found and timeout != 0`.
LoopCond == ~found /\ timeout # 0

\* Mutant of IsSkipped: only the first line read is skipped.
IsSkipped_LeadingOnly(l) == l = CRLF /\ reads = 0

\* Lines 306-308: the CR LF-only line is skipped.
IsSkipped(l) == l = CRLF

\* Mutant of AfterEmptyRead: the sign of the budget is not tested.
AfterEmptyRead_Always(t) == t - serial_timeout

\* Mutant of IsEmptyRead: no line is taken for an empty read.
IsEmptyRead_Never(l) == FALSE

\* Lines 310-313: an empty read, and the budget after it.
IsEmptyRead(l) == Len(l) = 0
AfterEmptyRead(t) == IF t > 0 THEN t - serial_timeout ELSE t

\* Mutant of IsSuccess: the failure token is tested first.
IsSuccess_FailureFirst(l) == IsIn(val1, l) /\ ~(val2 # None /\ IsIn(val2, l))

\* Mutant of IsSuccess: a line with the capture token is no success line.
IsSuccess_NotOnCapture(l) == IsIn(val1, l) /\ ~(store # None /\ IsIn(store, l))

\* Mutant of IsCapture: the line must equal the capture token.
IsCapture_Equal(l) == store # None /\ l = store

\* Mutant of IsCapture: only the first line with the capture token is kept.
IsCapture_First(l) ==
    store # None /\ IsIn(store, l) /\ output = None
    /\ ~IsIn(val1, l) /\ ~(val2 # None /\ IsIn(val2, l))

\* Lines 317-324: classification of a line that was neither skipped nor empty.
\* Every call site passes val1 as bytes. The second disjunct of line 323,
\* `str(store) in str(line)`, compares the b'...' renderings and holds only
\* when `store in line` does.
IsSuccess(l) == IsIn(val1, l)
IsFailure(l) == ~IsSuccess(l) /\ val2 # None /\ IsIn(val2, l)
IsCapture(l) == ~IsSuccess(l) /\ ~IsFailure(l) /\ store # None /\ IsIn(store, l)

\* Mutant of EchoLine: the line is written twice.
EchoLine_Twice(l) == Append(Append(echoed, l), l)

\* Line 315: sys.stdout.write('<- ' + str(line, encoding=full_encoding)).
EchoLine(l) == Append(echoed, l)

\* One iteration of the loop body on the line `l` just read (lines 306-324).
Process(l) ==
    /\ line' = l
    /\ reads' = reads + 1
    /\ IF IsSkipped(l)
         THEN UNCHANGED <<timeout, found, retval, output, echoed>>
       ELSE IF IsEmptyRead(l)
         THEN /\ timeout' = AfterEmptyRead(timeout)
              /\ UNCHANGED <<found, retval, output, echoed>>
       ELSE /\ echoed' = EchoLine(l)
            /\ UNCHANGED timeout
            /\ IF IsSuccess(l)
                 THEN found' = TRUE /\ retval' = TRUE /\ UNCHANGED output
               ELSE IF IsFailure(l)
                 THEN found' = TRUE /\ retval' = FALSE /\ UNCHANGED output
               ELSE IF IsCapture(l)
                 THEN output' = l /\ UNCHANGED <<found, retval>>
               ELSE UNCHANGED <<found, retval, output>>
    /\ UNCHANGED <<wpc, ser, val1, val2, store, lf_done, printed, ret, timeout0>>

\* The call: locals initialised, then ser.flush() or readlines_at_rtt (lines
\* 288-295).
WfpCall ==
    /\ wpc = "idle"
    /\ \E s \in BOOLEAN, v1 \in Val1s, v2 \in Val2s, st \in Stores, t \in Timeouts :
         /\ ser' = s
         /\ val1' = v1 /\ val2' = v2 /\ store' = st
         /\ timeout' = t /\ timeout0' = t
         /\ IF s THEN rtt_lines' = <<>>
                 ELSE rtt_lines' \in SeqsUpTo(Lines, MaxRttLines)
    /\ found' = FALSE /\ retval' = FALSE /\ output' = None
    /\ wpc' = "scan"
    /\ UNCHANGED <<line, lf_done, echoed, printed, ret, reads>>

\* Lines 298-299: line = ser.readline(), then the loop body.
WfpReadSerial ==
    /\ wpc = "scan" /\ LoopCond /\ ser
    /\ reads < MaxReads
    /\ \E l \in Lines : Process(l)
    /\ UNCHANGED rtt_lines

\* Lines 301-303: the next collected RTT line, then the loop body.
WfpReadRtt ==
    /\ wpc = "scan" /\ LoopCond /\ ~ser
    /\ rtt_lines # <<>>
    /\ Process(Head(rtt_lines))
    /\ rtt_lines' = Tail(rtt_lines)

\* Lines 301-302: `break` when the collected RTT lines are used up.
WfpRttBreak ==
    /\ wpc = "scan" /\ LoopCond /\ ~ser
    /\ rtt_lines = <<>>
    /\ wpc' = "post"
    /\ UNCHANGED <<ser, val1, val2, store, timeout, found, retval, output, line,
                   rtt_lines, lf_done, echoed, printed, ret, reads, timeout0>>

\* Line 297: the loop condition is false.
WfpLoopExit ==
    /\ wpc = "scan" /\ ~LoopCond
    /\ wpc' = "post"
    /\ UNCHANGED <<ser, val1, val2, store, timeout, found, retval, output, line,
                   rtt_lines, lf_done, echoed, printed, ret, reads, timeout0>>

\* Mutant of PostPrints: the timeout is not reported.
PostPrints_NoTimeout ==
    IF store # None /\ output = None THEN {"String not detected"} ELSE {}

\* Lines 329-334: what is printed after the loop.
PostPrints ==
    (IF store # None /\ output = None THEN {"String not detected"} ELSE {})
    \cup (IF timeout = 0 THEN {"Serial timeout"} ELSE {})

\* Line 336: the value returned.
ReturnValue == <<retval, output>>

\* Lines 326-336. `lf_done = b'\n' in line` reads the local `line`, which is
\* unbound when the loop body never assigned it: UnboundLocalError.
WfpPost ==
    /\ wpc = "post"
    /\ IF line = Unbound
         THEN /\ wpc' = "raised"
              /\ UNCHANGED <<lf_done, printed, ret>>
         ELSE /\ lf_done' = IsIn(<<LF>>, line)
              /\ printed' = PostPrints
              /\ ret' = ReturnValue
              /\ wpc' = "returned"
    /\ UNCHANGED <<ser, val1, val2, store, timeout, found, retval, output, line,
                   rtt_lines, echoed, reads, timeout0>>

WfpIdle ==
    /\ wpc = "idle"
    /\ ser = TRUE
    /\ val1 = TokOK /\ val2 = None /\ store = None
    /\ timeout = 0 /\ timeout0 = 0
    /\ found = FALSE /\ retval = FALSE /\ output = None
    /\ line = Unbound
    /\ rtt_lines = <<>>
    /\ lf_done = FALSE
    /\ echoed = <<>>
    /\ printed = {}
    /\ ret = None
    /\ reads = 0

\* Values of the locals of do_provisioning before they are assigned.
NoErrorResults == [status_code |-> 0, text |-> <<>>]
NotParsed ==
    [none |-> FALSE, raised |-> FALSE, cnt |-> 0, map |-> <<>>, warning |-> FALSE]
NotReturned == [kind |-> "running", value |-> <<>>]

PollIdle ==
    /\ loop = "get_provisioning_results"
    /\ lpc = "idle"
    /\ prev_status = ""
    /\ polls = 0
    /\ fetches = <<>>
    /\ log = <<>>
    /\ loop_ret = NotReturned
    /\ events = <<>>

\* No session runs.
\* No call was made on the provisioning CSV, which does not exist.
CsvIdle ==
    /\ csv_exists = FALSE
    /\ csv_file = <<>>
    /\ csv_calls = 0

SessIdle ==
    /\ script = "none"
    /\ spc = "idle"
    /\ is_gateway = FALSE
    /\ args_delete = FALSE
    /\ attempts = 0
    /\ scanning = FALSE
    /\ ops = <<>>

ProvIdle ==
    /\ ppc = "idle"
    /\ device_list = <<>>
    /\ dev_before = <<>>
    /\ err_json = <<>>
    /\ warnings = <<>>
    /\ err_count = 0
    /\ job_status = "none"
    /\ report = [kind |-> "none"]
    /\ result = "none"
    /\ prov_result = 0
    /\ error_results = NoErrorResults
    /\ parsed = NotParsed
    /\ csv_rows = -1
    /\ do_check = FALSE
    /\ fetch_result = 0

WfpNext ==
    \/ WfpCall /\ UNCHANGED <<provVars, pollVars, sessVars, csvVars>>
    \/ WfpReadSerial /\ UNCHANGED <<provVars, pollVars, sessVars, csvVars>>
    \/ WfpReadRtt /\ UNCHANGED <<provVars, pollVars, sessVars, csvVars>>
    \/ WfpRttBreak /\ UNCHANGED <<provVars, pollVars, sessVars, csvVars>>
    \/ WfpLoopExit /\ UNCHANGED <<provVars, pollVars, sessVars, csvVars>>
    \/ WfpPost /\ UNCHANGED <<provVars, pollVars, sessVars, csvVars>>

WfpInit == WfpIdle /\ ProvIdle /\ PollIdle /\ SessIdle /\ CsvIdle

SpecWfp == WfpInit /\ [][WfpNext]_vars

(***************************************************************************)
(* nrf_cloud_provision.py: the device list and its reconciliation.         *)
(***************************************************************************)
\* A device list entry is [ <device_id>, <result_string> ]; Python's
\* dev[DEV_LIST_ID_IDX] and dev[DEV_LIST_RES_IDX] are entry[1] and entry[2].
DevId(dev) == dev[1]
DevRes(dev) == dev[2]

\* The device id in row n of a provisioning CSV.
RowId(n) == <<"dev", n>>

\* read_prov_csv: one entry per row, the result string empty.
ReadRows(n) == [i \in 1..n |-> <<RowId(i), "">>]
CsvRowCounts == 0..MaxBatch

\* Error messages of an error summary (dict keys).
ErrMsgs == {"", " ", "CERT_EXPIRED", "BAD_FORMAT"}
\* Indices an error summary may report: below, inside and above 1..N.
IdxValues == (-(MaxBatch + 1))..(MaxBatch + 1)
\* Index lists (JSON arrays) of at most two indices.
IdxLists ==
    {<<>>} \cup {<<i>> : i \in IdxValues} \cup {<<i, j>> : i \in IdxValues, j \in IdxValues}
\* Error maps as the sequence of <<message, index list>> in the dict's
\* iteration order, keys distinct: at most two messages with any index
\* lists, and three messages of one index each.
ErrItems == ErrMsgs \X IdxLists
ErrMaps ==
    {<<>>} \cup {<<e>> : e \in ErrItems}
    \cup {p \in ErrItems \X ErrItems : p[1][1] # p[2][1]}
    \cup {<<<<m[1], <<i>>>>, <<m[2], <<j>>>>, <<m[3], <<k>>>>>> :
            m \in {t \in ErrMsgs \X ErrMsgs \X ErrMsgs :
                     t[1] # t[2] /\ t[1] # t[3] /\ t[2] # t[3]},
            i \in IdxValues, j \in IdxValues, k \in IdxValues}

\* Mutant of update_device_list_ok: nothing is marked.
update_device_list_ok_Nothing(dev_list) == dev_list

\* update_device_list_ok (lines 173-180).
update_device_list_ok(dev_list) ==
    [i \in 1..Len(dev_list) |->
        IF Len(DevRes(dev_list[i])) = 0
          THEN <<DevId(dev_list[i]), "OK">>
          ELSE dev_list[i]]

\* Mutant of ZeroBased: the reported index is used as it is.
ZeroBased_NoShift(dev_idx) == dev_idx

\* Line 156: i = dev_idx - 1.
ZeroBased(dev_idx) == dev_idx - 1

\* Lines 162-166: the text stamped for an error message.
StampText(err_item) ==
    IF Len(err_item) = 0 \/ err_item = " " THEN "ERROR_UNKNOWN" ELSE err_item

\* Lines 155-166 for one index. st = [list, warnings, raised]. dev_list[i] with
\* -len <= i < 0 is Python's element i + len; i < -len raises IndexError.
StampIndex(st, err_item, dev_idx) ==
    LET list_sz == Len(st.list)
        i == ZeroBased(dev_idx)
    IN IF st.raised THEN st
       ELSE IF i >= list_sz
         THEN [st EXCEPT !.warnings = Append(@, dev_idx)]
       ELSE IF i < -list_sz
         THEN [st EXCEPT !.raised = TRUE]
       ELSE LET pos == (IF i >= 0 THEN i ELSE i + list_sz) + 1
            IN [st EXCEPT !.list[pos] = <<DevId(@), StampText(err_item)>>]

\* Lines 155-166: the loop over one message's index list.
RECURSIVE StampList(_, _, _)
StampList(st, err_item, idx_list) ==
    IF idx_list = <<>> THEN st
    ELSE StampList(StampIndex(st, err_item, Head(idx_list)), err_item, Tail(idx_list))

\* Lines 148-166: the loop over the error dict.
RECURSIVE StampAll(_, _)
StampAll(st, err_dict) ==
    IF err_dict = <<>> THEN st
    ELSE StampAll(StampList(st, Head(err_dict)[1], Head(err_dict)[2]), Tail(err_dict))

\* Mutant of update_device_list_err: the records without an error are not
\* marked.
update_device_list_err_NoOk(dev_list, err_dict) ==
    StampAll([list |-> dev_list, warnings |-> <<>>, raised |-> FALSE], err_dict)

\* update_device_list_err (lines 143-171): [list, warnings, raised].
update_device_list_err(dev_list, err_dict) ==
    LET st == StampAll([list |-> dev_list, warnings |-> <<>>, raised |-> FALSE], err_dict)
    IN IF st.raised THEN st
       ELSE [st EXCEPT !.list = update_device_list_ok(@)]

\* Python None for the device list (shaped like a list so that the two compare).
NoList == <<<<<<"None", 0>>, "None">>>>

(***************************************************************************)
(* SpecRecon: the two reconciliation functions applied to a device list    *)
(* as read_prov_csv returns it.                                            *)
(***************************************************************************)
ReconInit ==
    /\ WfpIdle
    /\ ppc = "read"
    /\ \E n \in CsvRowCounts :
         device_list = ReadRows(n) /\ dev_before = ReadRows(n) /\ csv_rows = n
    /\ do_check = FALSE
    /\ fetch_result = 0
    /\ err_json = <<>>
    /\ warnings = <<>>
    /\ err_count = 0
    /\ job_status = "none"
    /\ report = [kind |-> "none"]
    /\ result = "none"
    /\ prov_result = 0
    /\ error_results = NoErrorResults
    /\ parsed = NotParsed
    /\ PollIdle
    /\ SessIdle
    /\ CsvIdle

ReconErr ==
    /\ ppc = "read"
    /\ \E e \in ErrMaps :
         LET st == update_device_list_err(device_list, e)
         IN /\ err_json' = e
            /\ device_list' = st.list
            /\ warnings' = st.warnings
            /\ ppc' = IF st.raised THEN "raised" ELSE "stamped"
    /\ UNCHANGED <<dev_before, err_count, job_status, report, result,
                   prov_result, error_results, parsed, csv_rows, do_check, fetch_result>>

ReconOk ==
    /\ ppc = "read"
    /\ device_list' = update_device_list_ok(device_list)
    /\ ppc' = "marked_ok"
    /\ UNCHANGED <<dev_before, err_json, warnings, err_count, job_status,
                   report, result, prov_result, error_results, parsed,
                   csv_rows, do_check, fetch_result>>

ReconNext ==
    \/ ReconErr /\ UNCHANGED <<wfpVars, pollVars, sessVars, csvVars>>
    \/ ReconOk /\ UNCHANGED <<wfpVars, pollVars, sessVars, csvVars>>

SpecRecon == ReconInit /\ [][ReconNext]_vars

(***************************************************************************)
(* nrf_cloud_provision.py: the error summary and parse_err_msg.            *)
(***************************************************************************)
\* An error summary text is a sequence of pieces: the two markers, the
\* whitespace-separated words of the first sentence, and the escaped JSON
\* dict of the detailed error list.
Piece(k, digits, n, m) == [kind |-> k, isdigit |-> digits, int |-> n, map |-> m]
\* ERR_FIND_FIRST_STR = "(1-based)]: " (line 35).
ERR_FIND_FIRST_STR == Piece("(1-based)]: ", FALSE, 0, <<>>)
\* ERR_FIND_END_STR = ".\"}" (line 36).
ERR_FIND_END_STR == Piece(".\"}", FALSE, 0, <<>>)
\* A word of the first sentence; s.isdigit() and int(s) of line 127-128.
Word(digits, n) == Piece("word", digits, n, <<>>)
\* The JSON text of the error dict m.
Json(m) == Piece("json", FALSE, 0, m)

SummaryMaps ==
    {<<>>,
     <<<<"CERT_EXPIRED", <<1>>>>, <<"BAD_FORMAT", <<3>>>>>>,
     <<<<"CERT_EXPIRED", <<1, 2>>>>, <<"", <<2>>>>>>,
     <<<<"BAD_FORMAT", <<0>>>>>>,
     <<<<"BAD_FORMAT", <<MaxBatch + 1>>>>>>,
     <<<<"BAD_FORMAT", <<-(MaxBatch + 1)>>>>>>}
SummaryWords ==
    {<<Word(FALSE, 0), Word(TRUE, 2), Word(FALSE, 0)>>,
     <<Word(FALSE, 0), Word(FALSE, 0)>>,
     <<Word(FALSE, 0), Word(TRUE, 3), Word(TRUE, 1)>>,
     <<Word(TRUE, 0), Word(FALSE, 0)>>}
\* Error summary texts: the text as the cloud writes it, texts that lack a
\* marker, and texts where a marker occurs twice or out of order.
SummaryTexts ==
    UNION {{w \o <<ERR_FIND_FIRST_STR, Json(m), ERR_FIND_END_STR>>,
            w \o <<Json(m), ERR_FIND_END_STR>>,
            w \o <<ERR_FIND_FIRST_STR, Json(m)>>,
            w \o <<Json(m)>>,
            w \o <<ERR_FIND_FIRST_STR, Word(FALSE, 0), ERR_FIND_FIRST_STR,
                   Json(m), ERR_FIND_END_STR>>,
            w \o <<ERR_FIND_FIRST_STR, Json(m), ERR_FIND_END_STR,
                   ERR_FIND_FIRST_STR>>,
            <<ERR_FIND_END_STR>> \o w
               \o <<ERR_FIND_FIRST_STR, Json(m), ERR_FIND_END_STR>>,
            <<ERR_FIND_END_STR>> \o w \o <<ERR_FIND_FIRST_STR, Json(m)>>}
           : w \in SummaryWords, m \in SummaryMaps}

\* str.find: the 0-based position of the first occurrence, -1 when absent.
RECURSIVE find(_, _)
find(s, sub) ==
    IF s = <<>> THEN -1
    ELSE IF Head(s) = sub THEN 0
    ELSE LET r == find(Tail(s), sub) IN IF r = -1 THEN -1 ELSE r + 1

\* Mutant of rfind: the first occurrence.
rfind_first(s, sub) == find(s, sub)

\* str.rfind: the 0-based position of the last occurrence, -1 when absent.
RECURSIVE rfind(_, _)
rfind(s, sub) ==
    IF s = <<>> THEN -1
    ELSE IF s[Len(s)] = sub THEN Len(s) - 1
    ELSE rfind(SubSeq(s, 1, Len(s) - 1), sub)

\* The slice s[a:b] for 0 <= a and 0 <= b <= len(s): empty when b <= a.
Slice(s, a, b) == IF a < b THEN SubSeq(s, a + 1, b) ELSE <<>>

\* Mutant of FirstCount: the last all-digit word.
RECURSIVE FirstCount_Last(_)
FirstCount_Last(words) ==
    IF words = <<>> THEN 0
    ELSE IF words[Len(words)].isdigit THEN words[Len(words)].int
    ELSE FirstCount_Last(SubSeq(words, 1, Len(words) - 1))

\* Lines 124-129: the first all-digit word, 0 when there is none.
RECURSIVE FirstCount(_)
FirstCount(words) ==
    IF words = <<>> THEN 0
    ELSE IF Head(words).isdigit THEN Head(words).int
    ELSE FirstCount(Tail(words))

\* Lines 138-141: literal_eval removes the escapes and json.loads reads the
\* dict; text that is not one JSON document raises (JSONDecodeError).
json_loads(err_json_str) ==
    IF Len(err_json_str) = 1 /\ err_json_str[1].kind = "json"
      THEN [raised |-> FALSE, map |-> err_json_str[1].map]
      ELSE [raised |-> TRUE, map |-> <<>>]

\* parse_err_msg (lines 108-141): [none |-> TRUE] is the bare `return` after
\* "Unhandled error response format"; otherwise the pair (err_cnt, dict), or
\* the exception of json.loads. `warning` is the print of line 131-132,
\* "Warning: no errors reported".
parse_err_msg(err_str) ==
    LET err_begin_idx == find(err_str, ERR_FIND_FIRST_STR)
        err_end_idx == rfind(err_str, ERR_FIND_END_STR)
        err_begin_str == Slice(err_str, 0, err_begin_idx)
        err_json_str == Slice(err_str, err_begin_idx + 1, err_end_idx)
        loaded == json_loads(err_json_str)
    IN IF err_begin_idx = -1 \/ err_end_idx = -1
         THEN [none |-> TRUE, raised |-> FALSE, cnt |-> 0, map |-> <<>>,
               warning |-> FALSE]
         ELSE [none |-> FALSE, raised |-> loaded.raised,
               cnt |-> IF loaded.raised THEN 0 ELSE FirstCount(err_begin_str),
               map |-> loaded.map,
               warning |-> FirstCount(err_begin_str) = 0]

(***************************************************************************)
(* The poll loops: get_provisioning_results (nrf_cloud_provision.py        *)
(* 84-105) and wait_for_cmd_status (diap.py 475-500).                      *)
(***************************************************************************)
\* HTTP status codes of a status fetch.
BulkOpsCodes == {200, 404, 500}
\* The "status" of a fetched job or command; "OTHER" is any value the code
\* does not name.
JobStatuses == {"PENDING", "IN_PROGRESS", "SUCCEEDED", "FAILED", "OTHER"}

\* The n-th response fetched: its status code, the "status" of its body (none
\* when the fetch failed) and the "response" of its body.
Fetch(code, status, n) ==
    [status_code |-> code, status |-> status, response |-> <<"response", n>>]
ApiResults(n) ==
    {Fetch(200, st, n) : st \in JobStatuses}
        \cup {Fetch(code, "", n) : code \in BulkOpsCodes \ {200}}

\* Python None returned by a loop, and a returned value.
ReturnedNone == [kind |-> "None", value |-> <<>>]
Returned(v) == [kind |-> "value", value |-> v]

\* Mutant of CmdPending: IN_PROGRESS is taken for a final status.
CmdPending_NotInProgress(curr_status) == curr_status = "PENDING"

\* Mutant of GprFetchFailed: a failed fetch is not noticed.
GprFetchFailed_Never(api_result) == FALSE

\* nrf_cloud_provision.py line 94.
GprFetchFailed(api_result) == api_result.status_code # 200

\* Mutant of GprPending: IN_PROGRESS is taken for a final status.
GprPending_NotInProgress(status) == status = "PENDING"

\* Mutant of GprPending: no status is taken for a pending one.
GprPending_Never(status) == FALSE

\* nrf_cloud_provision.py line 102.
GprPending(status) == status = "IN_PROGRESS" \/ status = "PENDING"

\* Lines 89-90: print("Waiting 5s...") and time.sleep(5).
GprSlept(evs) == Append(evs, "sleep")

\* One turn of the loop of get_provisioning_results (lines 88-105).
GprTurn ==
    /\ loop = "get_provisioning_results" /\ lpc = "loop"
    /\ polls < MaxPolls
    /\ polls' = polls + 1
    /\ events' = Append(GprSlept(events), "fetch")
    /\ \E api_result \in ApiResults(polls + 1) :
         /\ fetches' = Append(fetches, api_result)
         /\ IF GprFetchFailed(api_result)
              THEN /\ loop_ret' = ReturnedNone
                   /\ lpc' = "returned"
                   /\ UNCHANGED log
              ELSE /\ log' = Append(log, api_result.status)
                   /\ IF GprPending(api_result.status)
                        THEN UNCHANGED <<lpc, loop_ret>>
                        ELSE loop_ret' = Returned(api_result) /\ lpc' = "returned"
    /\ UNCHANGED <<loop, prev_status>>

\* diap.py line 485.
CmdFetchFailed(api_res) == api_res.status_code # 200

\* Mutant of CmdStatusChanged: every status is printed.
CmdStatusChanged_Always(curr_status) == TRUE

\* diap.py line 492.
CmdStatusChanged(curr_status) == prev_status # curr_status

\* diap.py line 496.
CmdPending(curr_status) == curr_status = "PENDING" \/ curr_status = "IN_PROGRESS"

\* Mutant of CmdSlept: the loop does not sleep.
CmdSlept_Skipped(evs) == evs

\* diap.py line 481: time.sleep(5).
CmdSlept(evs) == Append(evs, "sleep")

\* One turn of the loop of wait_for_cmd_status (diap.py 479-500).
CmdTurn ==
    /\ loop = "wait_for_cmd_status" /\ lpc = "loop"
    /\ polls < MaxPolls
    /\ polls' = polls + 1
    /\ events' = Append(CmdSlept(events), "fetch")
    /\ \E api_res \in ApiResults(polls + 1) :
         /\ fetches' = Append(fetches, api_res)
         /\ IF CmdFetchFailed(api_res)
              THEN /\ loop_ret' = ReturnedNone
                   /\ lpc' = "returned"
                   /\ UNCHANGED <<prev_status, log>>
              ELSE LET curr_status == api_res.status
                   IN /\ IF CmdStatusChanged(curr_status)
                           THEN /\ prev_status' = curr_status
                                /\ log' = Append(log, curr_status)
                           ELSE UNCHANGED <<prev_status, log>>
                      /\ IF CmdPending(curr_status)
                           THEN UNCHANGED <<lpc, loop_ret>>
                           ELSE /\ loop_ret' = Returned(api_res.response)
                                /\ lpc' = "returned"
    /\ UNCHANGED loop

\* The call of one of the two loops: the state at the first `while True`.
PollInit ==
    /\ WfpIdle
    /\ ProvIdle
    /\ SessIdle
    /\ CsvIdle
    /\ loop \in {"get_provisioning_results", "wait_for_cmd_status"}
    /\ lpc = "loop"
    /\ prev_status = ""
    /\ polls = 0
    /\ fetches = <<>>
    /\ log = <<>>
    /\ loop_ret = NotReturned
    /\ events = <<>>

PollNext ==
    \/ GprTurn /\ UNCHANGED <<wfpVars, provVars, sessVars, csvVars>>
    \/ CmdTurn /\ UNCHANGED <<wfpVars, provVars, sessVars, csvVars>>

SpecPoll == PollInit /\ [][PollNext]_vars

\* The loop body is straight-line code between `while True:` and `continue`:
\* time.sleep(5) and the HTTP request return, so a loop that has not returned
\* goes on to its next turn.
SpecPollFair == SpecPoll /\ WF_vars(PollNext)

(***************************************************************************)
(* nrf_cloud_provision.py: do_provisioning.                                *)
(***************************************************************************)
\* MAX_CSV_ROWS (line 37).
MAX_CSV_ROWS == 1000

\* Mutant of read_prov_csv: a file of MAX_CSV_ROWS rows is refused too.
read_prov_csv_AtLeast(row_count) ==
    IF row_count >= MAX_CSV_ROWS THEN NoList ELSE ReadRows(row_count)

\* read_prov_csv (lines 182-204) on a file of row_count rows: None when the
\* count exceeds MAX_CSV_ROWS, before any row is read.
read_prov_csv(row_count) ==
    IF row_count > MAX_CSV_ROWS THEN NoList ELSE ReadRows(row_count)

\* Row counts of the CSV files tried: small files, a file of the maximum
\* size and one over it.
CsvFiles == CsvRowCounts \cup {MAX_CSV_ROWS, MAX_CSV_ROWS + 1}

\* HTTP status codes of the device lookup, the submission and the summary
\* download.
FetchDeviceCodes == {404, 200, 500}
ProvisionCodes == {202, 400}
SummaryCodes == {200, 404}

ProvInit ==
    /\ WfpIdle
    /\ PollIdle
    /\ SessIdle
    /\ CsvIdle
    /\ ppc = "start"
    /\ device_list = <<>>
    /\ dev_before = <<>>
    /\ err_json = <<>>
    /\ warnings = <<>>
    /\ err_count = 0
    /\ job_status = "none"
    /\ report = [kind |-> "none"]
    /\ result = "none"
    /\ prov_result = 0
    /\ error_results = NoErrorResults
    /\ parsed = NotParsed
    /\ csv_rows = -1
    /\ do_check \in BOOLEAN
    /\ fetch_result = 0

Return(r) == result' = r /\ ppc' = "returned"

\* Lines 246-268: argument checks and read_prov_csv.
ProvStart ==
    /\ ppc = "start"
    /\ \E api_key_len \in {0, 1}, paths_exist \in BOOLEAN, row_count \in CsvFiles :
         IF api_key_len < 1
           THEN Return("NOT_PERFORMED_NO_API_KEY")
                /\ UNCHANGED <<device_list, dev_before, csv_rows>>
         ELSE IF ~paths_exist
           THEN Return("NOT_PERFORMED_BAD_FILE_PATH")
                /\ UNCHANGED <<device_list, dev_before, csv_rows>>
         ELSE /\ csv_rows' = row_count
              /\ device_list' = read_prov_csv(row_count)
              /\ dev_before' = device_list'
              /\ IF device_list' = NoList
                   THEN Return("NOT_PERFORMED_INVALID_CSV_FORMAT")
                   ELSE ppc' = "check" /\ UNCHANGED result
    /\ UNCHANGED <<err_json, warnings, err_count, job_status, report,
                   prov_result, error_results, parsed, do_check, fetch_result, pollVars>>

\* Mutant of LookedUp: the device is looked up whatever the batch size.
LookedUp_AnySize(dev_list) == do_check

\* Line 270: the device is looked up.
LookedUp(dev_list) == do_check /\ Len(dev_list) = 1

\* Lines 270-285: the optional lookup of a single device.
ProvCheck ==
    /\ ppc = "check"
    /\ IF LookedUp(device_list)
         THEN \E status_code \in FetchDeviceCodes :
                /\ fetch_result' = status_code
                /\ IF status_code = 404 THEN ppc' = "submit" /\ UNCHANGED result
                   ELSE IF status_code = 200
                     THEN Return("NOT_PERFORMED_DEVICE_EXISTS")
                   ELSE Return("NOT_PERFORMED_DEV_CHK_FAILED")
         ELSE ppc' = "submit" /\ UNCHANGED <<result, fetch_result>>
    /\ UNCHANGED <<device_list, dev_before, err_json, warnings, err_count,
                   job_status, report, prov_result, error_results, parsed,
                   csv_rows, do_check, pollVars>>

\* Mutant of ProvisionAccepted: every status code is taken for 202.
ProvisionAccepted_Always(status_code) == TRUE

\* Line 291, negated: the submission was accepted.
ProvisionAccepted(status_code) == status_code = 202

\* Lines 287-299: the ProvisionDevices call; when it is accepted,
\* get_provisioning_results is called.
ProvSubmit ==
    /\ ppc = "submit"
    /\ \E status_code \in ProvisionCodes :
         /\ prov_result' = status_code
         /\ IF ~ProvisionAccepted(status_code)
              THEN Return("NOT_PERFORMED_PROVDEV_CALL_FAILED") /\ UNCHANGED lpc
              ELSE ppc' = "poll" /\ lpc' = "loop" /\ UNCHANGED result
    /\ UNCHANGED <<device_list, dev_before, err_json, warnings, err_count,
                   job_status, report, error_results, parsed, csv_rows, do_check, fetch_result,
                   loop, prev_status, polls, fetches, log, loop_ret, events>>

\* save_bulk_ops_id (lines 236-242): the report handed to save_or_print.
save_bulk_ops_id == [kind |-> "bulk_ops_id"]

\* One turn of get_provisioning_results called at line 299, and lines
\* 300-306 when it returns.
ProvPoll ==
    /\ ppc = "poll"
    /\ GprTurn
    /\ IF lpc' = "loop"
         THEN UNCHANGED <<ppc, job_status, report, result>>
       ELSE IF loop_ret' = ReturnedNone
         THEN /\ report' = save_bulk_ops_id
              /\ Return("PERFORMED_RESULTS_NOT_CONFIRMED")
              /\ UNCHANGED job_status
       ELSE /\ job_status' = loop_ret'.value.status
            /\ ppc' = "reconcile"
            /\ UNCHANGED <<report, result>>
    /\ UNCHANGED <<device_list, dev_before, err_json, warnings, err_count,
                   prov_result, error_results, parsed, csv_rows, do_check, fetch_result>>

\* Lines 305-326: the device list is stamped from the job status. Unpacking
\* the None of parse_err_msg raises TypeError; json.loads in parse_err_msg
\* and update_device_list_err may raise too.
ProvReconcile ==
    /\ ppc = "reconcile"
    /\ IF job_status = "FAILED"
         THEN \E status_code \in SummaryCodes, text \in SummaryTexts :
                /\ error_results' = [status_code |-> status_code, text |-> text]
                /\ IF status_code = 200
                     THEN LET ret_val == parse_err_msg(text)
                              st == update_device_list_err(device_list, ret_val.map)
                          IN /\ parsed' = ret_val
                             /\ IF ret_val.none \/ ret_val.raised
                                  THEN /\ ppc' = "raised"
                                       /\ UNCHANGED <<device_list, err_json,
                                                      warnings, err_count>>
                                  ELSE /\ err_count' = ret_val.cnt
                                       /\ err_json' = ret_val.map
                                       /\ device_list' = st.list
                                       /\ warnings' = st.warnings
                                       /\ ppc' = IF st.raised THEN "raised" ELSE "save"
                     ELSE /\ device_list' = NoList
                          /\ ppc' = "save"
                          /\ UNCHANGED <<err_json, warnings, err_count, parsed>>
       ELSE IF job_status = "SUCCEEDED"
         THEN /\ device_list' = update_device_list_ok(device_list)
              /\ ppc' = "save"
              /\ UNCHANGED <<err_json, warnings, err_count, error_results, parsed>>
       ELSE /\ ppc' = "save"
            /\ UNCHANGED <<device_list, err_json, warnings, err_count,
                           error_results, parsed>>
    /\ UNCHANGED <<dev_before, job_status, report, result, prov_result,
                   csv_rows, do_check, fetch_result, pollVars>>

\* Mutant of ReportLines: the records are written last to first.
ReportLines_Reversed(dev_list) ==
    <<<<"Device ID", "Result">>>>
        \o [i \in 1..Len(dev_list) |->
              <<DevId(dev_list[Len(dev_list) + 1 - i]),
                DevRes(dev_list[Len(dev_list) + 1 - i])>>]

\* Lines 225-232: the lines written after the blank line, each as the tuple
\* of its comma-separated fields.
ReportLines(dev_list) ==
    IF dev_list # NoList
      THEN <<<<"Device ID", "Result">>>>
               \o [i \in 1..Len(dev_list) |->
                     <<DevId(dev_list[i]), DevRes(dev_list[i])>>]
      ELSE <<<<"Error output could not be accessed">>>>

\* save_results (lines 215-234): the report handed to save_or_print.
save_results(status, err_cnt, dev_list) ==
    [kind |-> "results", status |-> status, err_count |-> err_cnt,
     rows |-> dev_list, lines |-> ReportLines(dev_list)]

\* Mutant of ProvisionResultFor: errors are always reported.
ProvisionResultFor_Errors(err_cnt) == "PERFORMED_WITH_ERRORS"

\* Lines 330-333: the result returned after the report.
ProvisionResultFor(err_cnt) ==
    IF err_cnt = 0 THEN "PERFORMED_SUCCESSFULLY" ELSE "PERFORMED_WITH_ERRORS"

\* Lines 328-333.
ProvSave ==
    /\ ppc = "save"
    /\ report' = save_results(job_status, err_count, device_list)
    /\ Return(ProvisionResultFor(err_count))
    /\ UNCHANGED <<device_list, dev_before, err_json, warnings, err_count,
                   job_status, prov_result, error_results, parsed, csv_rows, do_check, fetch_result,
                   pollVars>>

ProvNext ==
    \/ ProvStart /\ UNCHANGED <<wfpVars, sessVars, csvVars>>
    \/ ProvCheck /\ UNCHANGED <<wfpVars, sessVars, csvVars>>
    \/ ProvSubmit /\ UNCHANGED <<wfpVars, sessVars, csvVars>>
    \/ ProvPoll /\ UNCHANGED <<wfpVars, sessVars, csvVars>>
    \/ ProvReconcile /\ UNCHANGED <<wfpVars, sessVars, csvVars>>
    \/ ProvSave /\ UNCHANGED <<wfpVars, sessVars, csvVars>>

SpecProv == ProvInit /\ [][ProvNext]_vars

(***************************************************************************)
(* The sessions: main of diap.py (with handle_login, get_attestation_token *)
(* and cleanup) and main of certifcate_installer.py.  A position is the    *)
(* source line of the write or of the wait_for_prompt call about to run;   *)
(* "exit" is sys.exit or the end of main, "raised" an uncaught exception.  *)
(* A call of wait_for_prompt is two steps, its begin and its return, and   *)
(* the return draws the (retval, output) pair.                             *)
(***************************************************************************)
\* An entry of `ops`: a text written, or a returned wait with its retval.
Write(c) == [op |-> "write", cmd |-> c, retval |-> FALSE]
Waited(rv) == [op |-> "wait", cmd |-> "", retval |-> rv]

\* What the capture of a call handed back: None, a line with a quoted text,
\* a line with an empty quoted text, a line without quotes.
WfpOutputs == {"None", "quoted", "empty", "unquoted"}

\* diap.py: the text written at a line, "" where the line writes nothing.
\* Line 273 writes the bare '\r' with ser.write, the others go through
\* write_line (lines 263-270).
DiapCmd(pc) ==
    CASE pc = "273" -> "CR"
      [] pc = "276" -> "password"
      [] pc = "582" -> "log disable"
      [] pc = "586" -> "at enable"
      [] pc = "591" -> "AT+CFUN=4"
      [] pc = "454" -> "AT%ATTESTTOKEN"
      [] pc = "447" -> "exit"
      [] pc = "449" -> "logout"
      [] OTHER -> ""

\* diap.py: the lines that call wait_for_prompt.
DiapWaits == {"275", "278", "583", "587", "593", "456", "448", "450"}

\* Mutant of DiapAfterWrite: 'at enable' is written right after
\* 'log disable'.
DiapAfterWrite_NoWait(pc) ==
    CASE pc = "273" -> "275"
      [] pc = "276" -> "278"
      [] pc = "582" -> "586"
      [] pc = "586" -> "587"
      [] pc = "591" -> "593"
      [] pc = "454" -> "456"
      [] pc = "447" -> "448"
      [] pc = "449" -> "450"
      [] OTHER -> pc

\* diap.py: the statement after a write.
DiapAfterWrite(pc) ==
    CASE pc = "273" -> "275"
      [] pc = "276" -> "278"
      [] pc = "582" -> "583"
      [] pc = "586" -> "587"
      [] pc = "591" -> "593"
      [] pc = "454" -> "456"
      [] pc = "447" -> "448"
      [] pc = "449" -> "450"
      [] OTHER -> pc

\* cleanup() while the port is open (lines 443-451); every call is followed
\* by sys.exit.
DiapCleanup == IF is_gateway THEN "447" ELSE "exit"

\* diap.py: the statement after a call of wait_for_prompt that returned
\* (rv, out).  Line 593 keeps the whole tuple, so `if not retval` at 594
\* never holds.  Lines 457-464 and 600-602 call cleanup; line 467 raises
\* IndexError on a capture without quotes.
DiapAfterWait(pc, rv, out) ==
    CASE pc = "275" -> IF rv THEN "276" ELSE "582"
      [] pc = "278" -> IF rv THEN "582" ELSE "275"
      [] pc = "583" -> "586"
      [] pc = "587" -> "591"
      [] pc = "593" -> "454"
      [] pc = "456" -> IF ~rv \/ out = "None" THEN DiapCleanup
                       ELSE IF out = "unquoted" THEN "raised"
                       ELSE IF out = "empty" THEN DiapCleanup
                       ELSE "605"
      [] pc = "448" -> "449"
      [] pc = "450" -> "exit"
      [] OTHER -> pc

\* certifcate_installer.py: the text written at a line (write_line, lines
\* 186-193, on the serial port or on RTT).
InstCmd(pc) ==
    CASE pc = "308" -> "AT+CFUN=4"
      [] pc = "316" -> "AT+CGSN"
      [] pc = "327" -> "AT+CGMR"
      [] pc = "340" -> "AT%CMNG=3"
      [] pc = "352" -> "AT%CMNG=0"
      [] OTHER -> ""

InstWaits == {"310", "317", "328", "341", "353"}

InstAfterWrite(pc) ==
    CASE pc = "308" -> "310"
      [] pc = "316" -> "317"
      [] pc = "327" -> "328"
      [] pc = "340" -> "341"
      [] pc = "352" -> "353"
      [] OTHER -> pc

\* certifcate_installer.py: the statement after a returned wait.  Line 310
\* keeps the tuple; lines 323 and 334 raise AttributeError on output None;
\* line 331 calls cleanup, which this file does not define (NameError).
InstAfterWait(pc, rv, out) ==
    CASE pc = "310" -> "316"
      [] pc = "317" -> IF ~rv THEN "exit"
                       ELSE IF out = "None" THEN "raised" ELSE "327"
      [] pc = "328" -> IF ~rv \/ out = "None" THEN "raised"
                       ELSE IF args_delete THEN "340" ELSE "352"
      [] pc = "341" -> "352"
      [] pc = "353" -> "exit"
      [] OTHER -> pc

Cmd(pc) == IF script = "diap" THEN DiapCmd(pc) ELSE InstCmd(pc)
Waits == IF script = "diap" THEN DiapWaits ELSE InstWaits
AfterWrite(pc) ==
    IF script = "diap" THEN DiapAfterWrite(pc) ELSE InstAfterWrite(pc)
AfterWait(pc, rv, out) ==
    IF script = "diap" THEN DiapAfterWait(pc, rv, out)
    ELSE InstAfterWait(pc, rv, out)

\* The port is open: diap.py 560-579 and 591, certifcate_installer.py 306-308.
SessInit ==
    /\ WfpIdle
    /\ ProvIdle
    /\ PollIdle
    /\ CsvIdle
    /\ script \in {"diap", "installer"}
    /\ is_gateway \in (IF script = "diap" THEN BOOLEAN ELSE {FALSE})
    /\ args_delete \in (IF script = "installer" THEN BOOLEAN ELSE {FALSE})
    /\ spc = (IF script = "installer" THEN "308"
              ELSE IF is_gateway THEN "273" ELSE "591")
    /\ attempts = 0
    /\ scanning = FALSE
    /\ ops = <<>>

\* ser.write / write_line: the text goes to the device.
SessWrite ==
    /\ Cmd(spc) # ""
    /\ ops' = Append(ops, Write(Cmd(spc)))
    /\ spc' = AfterWrite(spc)
    /\ UNCHANGED <<script, is_gateway, args_delete, attempts, scanning>>

\* wait_for_prompt is called.
SessWaitBegin ==
    /\ spc \in Waits /\ ~scanning
    /\ scanning' = TRUE
    /\ UNCHANGED <<script, spc, is_gateway, args_delete, attempts, ops>>

\* wait_for_prompt returns.  After a refused password line 280 asks for
\* another one.
SessWaitEnd ==
    /\ spc \in Waits /\ scanning
    /\ \E rv \in BOOLEAN, out \in WfpOutputs :
         /\ (spc = "278" /\ ~rv) => attempts < MaxAttempts
         /\ spc' = AfterWait(spc, rv, out)
         /\ attempts' = IF spc = "278" /\ ~rv THEN attempts + 1 ELSE attempts
         /\ ops' = Append(ops, Waited(rv))
    /\ scanning' = FALSE
    /\ UNCHANGED <<script, is_gateway, args_delete>>

\* diap.py 605-721: ser.close(), then the cloud side.  It ends in sys.exit
\* without cleanup (line 647), in an exception, or in cleanup() followed by
\* sys.exit; on a gateway that cleanup calls write_line('exit') on the
\* closed port and ser.write raises before anything is sent.
SessCloud ==
    /\ script = "diap" /\ spc = "605"
    /\ \E end \in {"exit", "raised", "cleanup"} :
         spc' = IF end = "cleanup"
                  THEN (IF is_gateway THEN "raised" ELSE "exit")
                  ELSE end
    /\ UNCHANGED <<script, is_gateway, args_delete, attempts, scanning, ops>>

SessNext ==
    \/ SessWrite /\ UNCHANGED <<wfpVars, provVars, pollVars, csvVars>>
    \/ SessWaitBegin /\ UNCHANGED <<wfpVars, provVars, pollVars, csvVars>>
    \/ SessWaitEnd /\ UNCHANGED <<wfpVars, provVars, pollVars, csvVars>>
    \/ SessCloud /\ UNCHANGED <<wfpVars, provVars, pollVars, csvVars>>

SpecSession == SessInit /\ [][SessNext]_vars

(***************************************************************************)
(* The provisioning CSV written by save_provisioning_csv of diap.py and by *)
(* main of iotbank_create_credentials.py.  The file is the sequence of the *)
(* first columns (device ids) of its rows; every call appends (append is   *)
(* True in diap.py, -overwrite is not given to iotbank_create_credentials);*)
(* opening the file may fail with OSError.                                 *)
(***************************************************************************)
CsvOf(n) == [i \in 1..n |-> RowId(i)]
\* Row counts of the file before the calls: empty, one row, one below the
\* maximum, full.
CsvRowsAtStart == {0, 1, MAX_CSV_ROWS - 1, MAX_CSV_ROWS}
\* Device ids handed to the calls: two that CsvOf(n) holds for n >= 2, two that it lacks.
CsvDevIds == {RowId(1), RowId(2), RowId(MAX_CSV_ROWS + 1), RowId(MAX_CSV_ROWS + 2)}

\* diap.py 338-356: <<exists, row_count>>; the OSError of open is caught and
\* the initial values are returned.
check_if_device_exists_in_csv(rows, dev_id, can_read) ==
    IF can_read
      THEN <<\E i \in DOMAIN rows : rows[i] = dev_id, Len(rows)>>
      ELSE <<FALSE, 0>>

\* diap.py 358-380 with append given: 'a', or 'w' when the file does not
\* exist (the prompt of lines 363-374 is for calls without append).
user_request_open_mode(exists) == IF exists THEN "a" ELSE "w"

\* iotbank_create_credentials.py 101-117: <<exists, row_count>>.
check_provisioning_csv(rows, dev_id) ==
    <<\E i \in DOMAIN rows : rows[i] = dev_id, Len(rows)>>

\* The file after writerow in mode 'a' or 'w'.
WriteRow(mode, dev_id) ==
    /\ csv_exists' = TRUE
    /\ csv_file' = IF mode = "a" THEN Append(csv_file, dev_id) ELSE <<dev_id>>

CsvInit ==
    /\ WfpIdle
    /\ ProvIdle
    /\ PollIdle
    /\ SessIdle
    /\ csv_calls = 0
    /\ \/ csv_exists = FALSE /\ csv_file = <<>>
       \/ csv_exists = TRUE /\ \E n \in CsvRowsAtStart : csv_file = CsvOf(n)

\* diap.py 406-441.
DiapSaveProvisioningCsv ==
    /\ csv_calls < MaxCalls
    /\ csv_calls' = csv_calls + 1
    /\ \E dev_id \in CsvDevIds, can_read \in BOOLEAN, can_write \in BOOLEAN :
         LET mode == user_request_open_mode(csv_exists)
             chk == check_if_device_exists_in_csv(csv_file, dev_id, can_read)
             do_not_write == mode = "a" /\ (chk[2] >= MAX_CSV_ROWS \/ chk[1])
         IN IF do_not_write \/ ~can_write
              THEN UNCHANGED <<csv_exists, csv_file>>
              ELSE WriteRow(mode, dev_id)

\* iotbank_create_credentials.py 196-206 and 270-278 (save_provisioning_csv,
\* lines 119-130).  An OSError of the open at line 105, the RuntimeError of
\* lines 203 and 206 and a failure while the credentials are made end main
\* before the file is written.
IotbankMain ==
    /\ csv_calls < MaxCalls
    /\ csv_calls' = csv_calls + 1
    /\ \E dev_id \in CsvDevIds, can_read \in BOOLEAN, creds_ok \in BOOLEAN,
          can_write \in BOOLEAN :
         LET chk == check_provisioning_csv(csv_file, dev_id)
             raised == csv_exists /\ (~can_read \/ chk[2] >= 1000 \/ chk[1])
         IN IF raised \/ ~creds_ok \/ ~can_write
              THEN UNCHANGED <<csv_exists, csv_file>>
              ELSE WriteRow(IF csv_exists THEN "a" ELSE "w", dev_id)

CsvNext ==
    \/ DiapSaveProvisioningCsv /\ UNCHANGED <<wfpVars, provVars, pollVars, sessVars>>
    \/ IotbankMain /\ UNCHANGED <<wfpVars, provVars, pollVars, sessVars>>

SpecCsv == CsvInit /\ [][CsvNext]_vars

(***************************************************************************)
(* Claims about do_provisioning, checked under SpecProv.                   *)
(***************************************************************************)
\* The final report of a job that left the pending states is being written
\* (line 328) or has been written.
AtFinalReport == ppc = "save" \/ report.kind = "results"
AllStamped(dev_list) == \A k \in 1..Len(dev_list) : DevRes(dev_list[k]) # ""

\* C1 as stated: at the final report, whatever status the job ended with,
\* every record of the device list has a non-empty result status.
C1_Original ==
    (AtFinalReport /\ device_list # NoList) => AllStamped(device_list)
\* C1 amended: at the final report of a SUCCEEDED job, and of a FAILED job
\* whose error summary was fetched and parsed, every record has a non-empty
\* result status; a FAILED job whose summary could not be fetched has no
\* device list, and after any other status the records are still empty.
C1_StampedWhenHandled ==
    AtFinalReport
        => /\ job_status = "SUCCEEDED"
                => (device_list # NoList /\ AllStamped(device_list)
                    /\ Len(device_list) = Len(dev_before))
           /\ job_status = "FAILED"
                => (device_list = NoList
                    \/ (AllStamped(device_list) /\ Len(device_list) = Len(dev_before)))
           /\ job_status \notin {"SUCCEEDED", "FAILED"} => device_list = dev_before
C1_Witness ==
    /\ ppc = "returned" /\ job_status = "FAILED" /\ report.kind = "results"
    /\ report.rows = <<<<RowId(1), "CERT_EXPIRED">>, <<RowId(2), "OK">>,
                       <<RowId(3), "BAD_FORMAT">>>>

(***************************************************************************)
(* Claims about the reconciliation functions, checked under SpecRecon.     *)
(***************************************************************************)
InRange(k) == k \in 1..Len(dev_before)
RECURSIVE Indices(_)
Indices(err_dict) ==
    IF err_dict = <<>> THEN {}
    ELSE {Head(err_dict)[2][b] : b \in DOMAIN Head(err_dict)[2]} \cup Indices(Tail(err_dict))
\* The error map without the indices outside 1..N.
DropOutOfRange(err_dict) ==
    [a \in DOMAIN err_dict |->
        <<err_dict[a][1], SelectSeq(err_dict[a][2], InRange)>>]

\* C2: every reported index outside 1..N (0, negative, above N) is discarded:
\* the call does not raise and the device list is the one the in-range
\* indices alone give.
C2_OutOfRangeDiscarded ==
    ppc \in {"stamped", "raised"}
        => /\ ppc # "raised"
           /\ device_list = update_device_list_err(dev_before, DropOutOfRange(err_json)).list

\* The items of the error map that list index k, and the last of them.
ItemsFor(k) == {a \in DOMAIN err_json : \E b \in DOMAIN err_json[a][2] : err_json[a][2][b] = k}
LastItemFor(k) == CHOOSE a \in ItemsFor(k) : \A c \in ItemsFor(k) : c <= a
AllInRange == \A k \in Indices(err_json) : InRange(k)

\* C3 as stated: with all indices in 1..N, record k-1 carries the message of
\* every item that lists k, and every unlisted record carries "OK".
C3_Original ==
    (ppc = "stamped" /\ AllInRange)
        => \A k \in 1..Len(device_list) :
              /\ \A a \in ItemsFor(k) : DevRes(device_list[k]) = err_json[a][1]
              /\ ItemsFor(k) = {} => DevRes(device_list[k]) = "OK"
\* C3 amended: record k-1 carries the message of the last item that lists k,
\* "ERROR_UNKNOWN" standing for an empty or single-space message, and every
\* unlisted record carries "OK".
C3_LastMessageOrOk ==
    (ppc \in {"stamped", "raised"} /\ AllInRange)
        => /\ ppc = "stamped"
           /\ Len(device_list) = Len(dev_before)
           /\ \A k \in 1..Len(device_list) :
                DevRes(device_list[k]) =
                    IF ItemsFor(k) = {} THEN "OK"
                    ELSE LET m == err_json[LastItemFor(k)][1]
                         IN IF m = "" \/ m = " " THEN "ERROR_UNKNOWN" ELSE m
C3_Witness ==
    /\ ppc = "stamped"
    /\ err_json = <<<<"CERT_EXPIRED", <<1>>>>, <<"BAD_FORMAT", <<3>>>>>>
    /\ device_list = <<<<RowId(1), "CERT_EXPIRED">>, <<RowId(2), "OK">>,
                       <<RowId(3), "BAD_FORMAT">>>>

(***************************************************************************)
(* Claims about wait_for_prompt, checked under SpecWfp.                    *)
(***************************************************************************)
\* A step that read one line from the line source; line' is that line.
ReadStep == wpc = "scan" /\ reads' = reads + 1
HasSuccess(l) == IsIn(val1, l)
HasFailure(l) == val2 # None /\ IsIn(val2, l)
HasCapture(l) == store # None /\ IsIn(store, l)

\* C4: a line that contains both the success token and the failure token
\* ends the scan with retval True (Success), never Failure.
C4_BothTokensSuccess ==
    (line # Unbound /\ HasSuccess(line) /\ HasFailure(line))
        => /\ found /\ retval
           /\ wpc \in {"scan", "post", "returned"}
           /\ (wpc = "returned" => ret[1] = TRUE)
C4_Witness ==
    wpc = "returned" /\ line = LineBoth /\ val2 = TokERROR /\ ret[1] = TRUE

C6_ZeroTimeoutOneRead ==
    (timeout0 = 0 /\ wpc \in {"post", "returned", "raised"})
        => (reads = 1 /\ wpc # "raised")

\* C7 as stated: a scan that ran out of budget returns a value other than the
\* one a failure line gives (retval False).
C7_Original ==
    (wpc = "returned" /\ ~found /\ timeout = 0) => ret[1] # FALSE
\* C7 amended: a scan that ran out of budget returns retval False, the value
\* a failure line gives too; the timeout is only printed ("Serial timeout").
C7_TimeoutReturnsFalse ==
    /\ (wpc = "returned" /\ ~found /\ timeout = 0)
            => (ret[1] = FALSE /\ "Serial timeout" \in printed)
    /\ (wpc = "returned" /\ found /\ HasFailure(line) /\ ~HasSuccess(line))
            => (ret[1] = FALSE /\ "Serial timeout" \notin printed)
C7_Witness ==
    /\ wpc = "returned" /\ ~found /\ timeout = 0 /\ timeout0 = 2
    /\ ret = <<FALSE, None>> /\ val2 = TokERROR

\* C8: the budget changes only on an empty read: an empty read takes
\* serial_timeout off a positive budget, a non-empty line leaves the budget
\* alone, and a negative budget is never decremented.
C8_BudgetOnlyOnEmptyRead ==
    [][/\ (wpc # "idle" /\ timeout' # timeout)
            => (ReadStep /\ Len(line') = 0 /\ timeout > 0)
       /\ (ReadStep /\ Len(line') = 0 /\ timeout > 0)
            => timeout' = timeout - serial_timeout
       /\ (ReadStep /\ Len(line') = 0 /\ timeout < 0) => timeout' = timeout
       /\ (ReadStep /\ Len(line') # 0) => timeout' = timeout
      ]_vars
C8_Witness ==
    wpc = "scan" /\ line = LineEmpty /\ timeout0 = 2 /\ timeout = 1 /\ reads = 2

C10_Original ==
    [][(ReadStep /\ HasCapture(line') /\ ~HasSuccess(line') /\ ~HasFailure(line'))
            => (output' = line' /\ ~found' /\ wpc' = "scan")]_vars
\* C10 amended: such a line, unless it is the CR LF-only line, is stored and
\* the scan continues; the stored line is returned with the outcome.
C10_CaptureStoredAndReturned ==
    [][/\ (ReadStep /\ line' # CRLF /\ HasCapture(line')
             /\ ~HasSuccess(line') /\ ~HasFailure(line'))
            => (output' = line' /\ ~found' /\ wpc' = "scan")
       /\ wpc' = "returned" => ret' = <<retval', output'>>
      ]_vars
C10_Witness ==
    /\ wpc = "returned" /\ found /\ store = TokATTEST
    /\ ret = <<TRUE, LineToken>> /\ line = LineOK

\* C11: a call with a capture token that ends with no line captured reports
\* the capture miss ("String ... not detected"), however the scan ended, and
\* the timeout report appears only when the budget reached zero.
C11_CaptureMissReported ==
    /\ (store # None /\ output = None /\ wpc \in {"returned", "raised"})
            => "String not detected" \in printed
    /\ "Serial timeout" \in printed => timeout = 0

\* C12 as stated: every line read, the CR LF-only ones included, is echoed
\* once, in the order read.
C12_Original ==
    [][(ReadStep /\ Len(line') # 0) => echoed' = Append(echoed, line')]_vars
\* C12 amended: every line read that is neither empty nor CR LF-only is
\* echoed once, in the order read; a CR LF-only line and an empty read are
\* not echoed, and nothing else is echoed.
C12_NonBlankLinesEchoed ==
    [][/\ ReadStep
            => echoed' = IF line' = CRLF \/ Len(line') = 0
                           THEN echoed ELSE Append(echoed, line')
       /\ (wpc # "idle" /\ ~ReadStep) => echoed' = echoed
      ]_vars
C12_Witness ==
    /\ wpc = "returned" /\ reads = 3 /\ timeout0 = 2 /\ timeout = 2
    /\ echoed = <<LineToken, LineOK>>

(***************************************************************************)
(* Claims about the error paths of do_provisioning, checked under          *)
(* SpecProv.                                                               *)
(***************************************************************************)
Ended == ppc \in {"returned", "raised"}

\* C13: a FAILED job whose error summary could not be fetched ends with the
\* device list unknown, a report that says the error output could not be
\* accessed, and a result that is neither PERFORMED_SUCCESSFULLY nor
\* PERFORMED_WITH_ERRORS.
C13_SummaryInaccessibleDistinct ==
    (Ended /\ job_status = "FAILED" /\ error_results.status_code \notin {0, 200})
        => /\ ppc = "returned"
           /\ device_list = NoList
           /\ report.kind = "results" /\ report.rows = NoList
           /\ result \notin {"PERFORMED_SUCCESSFULLY", "PERFORMED_WITH_ERRORS"}

\* C14: when the fetched error summary lacks a marker, do_provisioning does
\* not raise: it returns PERFORMED_RESULTS_NOT_CONFIRMED with a report
\* written.
C14_MalformedSummaryDegrades ==
    (Ended /\ error_results.status_code = 200 /\ parsed.none)
        => /\ ppc = "returned"
           /\ result = "PERFORMED_RESULTS_NOT_CONFIRMED"
           /\ report.kind # "none"

\* The 0-based positions of a piece in a text.
Occurrences(t, sub) == {i \in 0..(Len(t) - 1) : t[i + 1] = sub}
First(S) == CHOOSE i \in S : \A j \in S : i <= j
Last(S) == CHOOSE i \in S : \A j \in S : j <= i

\* C15: parse_err_msg takes the first occurrence of the begin marker and the
\* last occurrence of the end marker, and when either marker is absent it
\* gives its failure outcome (None) and no (count, map) pair.
C15_MarkersOrFailure ==
    error_results.status_code = 200
        => LET t == error_results.text
               begins == Occurrences(t, ERR_FIND_FIRST_STR)
               ends == Occurrences(t, ERR_FIND_END_STR)
           IN /\ find(t, ERR_FIND_FIRST_STR) = IF begins = {} THEN -1 ELSE First(begins)
              /\ rfind(t, ERR_FIND_END_STR) = IF ends = {} THEN -1 ELSE Last(ends)
              /\ parsed.none <=> (begins = {} \/ ends = {})
              /\ parsed.none => (ppc = "raised" /\ err_json = <<>> /\ err_count = 0)
              /\ (~parsed.none /\ ~parsed.raised)
                    => /\ parsed.map = t[First(begins) + 2].map
                       /\ Last(ends) = First(begins) + 2
C15_Witness ==
    /\ error_results.status_code = 200 /\ parsed.none
    /\ find(error_results.text, ERR_FIND_FIRST_STR) = 2
    /\ rfind(error_results.text, ERR_FIND_END_STR) = -1

\* C16: every end of do_provisioning after the submission call was made
\* leaves a report written through save_or_print.
C16_ReportAfterSubmission ==
    (Ended /\ prov_result # 0) => report.kind # "none"

AllEmpty(dev_list) == \A k \in 1..Len(dev_list) : DevRes(dev_list[k]) = ""

\* C17: a submission answered with a status other than 202 ends in
\* NOT_PERFORMED_PROVDEV_CALL_FAILED, a result no polled job ends in; the job
\* status is never fetched and no record's result status is changed.
C17_SubmissionFailed ==
    /\ prov_result \notin {0, 202}
            => /\ ppc = "returned"
               /\ result = "NOT_PERFORMED_PROVDEV_CALL_FAILED"
               /\ polls = 0 /\ fetches = <<>> /\ lpc = "idle"
               /\ job_status = "none"
               /\ device_list = dev_before /\ AllEmpty(device_list)
    /\ polls > 0 => result # "NOT_PERFORMED_PROVDEV_CALL_FAILED"
C17_Witness ==
    /\ ppc = "returned" /\ prov_result = 400
    /\ result = "NOT_PERFORMED_PROVDEV_CALL_FAILED"
    /\ Len(device_list) = MaxBatch

(***************************************************************************)
(* Claims about the poll loops, checked under SpecPoll.                    *)
(***************************************************************************)
Pending == {"PENDING", "IN_PROGRESS"}
LastFetch == fetches[Len(fetches)]
\* The statuses of the successful fetches, in order.
RECURSIVE Statuses(_)
Statuses(fs) ==
    IF fs = <<>> THEN <<>>
    ELSE IF Head(fs).status_code = 200
           THEN <<Head(fs).status>> \o Statuses(Tail(fs))
           ELSE Statuses(Tail(fs))
\* A sequence of statuses without the entries equal to their predecessor.
RECURSIVE Changes(_)
Changes(sts) ==
    IF Len(sts) <= 1 THEN sts
    ELSE LET front == SubSeq(sts, 1, Len(sts) - 1)
         IN IF sts[Len(sts)] = sts[Len(sts) - 1]
              THEN Changes(front)
              ELSE Append(Changes(front), sts[Len(sts)])

\* C18: in both loops a failed fetch is the last fetch and ends the loop
\* with None at once, and every fetch but the last one was a successful
\* fetch of PENDING or IN_PROGRESS.
C18_FailedFetchEndsLoop ==
    /\ polls = Len(fetches)
    /\ \A i \in 1..Len(fetches) :
         /\ fetches[i].status_code # 200
                => (i = Len(fetches) /\ lpc = "returned" /\ loop_ret = ReturnedNone)
         /\ i < Len(fetches)
                => (fetches[i].status_code = 200 /\ fetches[i].status \in Pending)
    /\ loop_ret = ReturnedNone => LastFetch.status_code # 200
C18_Witness ==
    /\ loop = "wait_for_cmd_status" /\ lpc = "returned" /\ loop_ret = ReturnedNone
    /\ Len(fetches) = 2 /\ fetches[1].status = "IN_PROGRESS"
    /\ fetches[2].status_code = 500

\* C19 as stated: a loop returns a value other than None only when the last
\* status fetched is SUCCEEDED or FAILED.
C19_Original ==
    (lpc = "returned" /\ loop_ret # ReturnedNone)
        => LastFetch.status \in {"SUCCEEDED", "FAILED"}
\* C19 amended: a loop keeps polling exactly while the status fetched is
\* PENDING or IN_PROGRESS and returns on any other status of a successful
\* fetch; get_provisioning_results returns the last response fetched,
\* wait_for_cmd_status the "response" field of the last response fetched.
C19_ReturnsWhenNotPending ==
    /\ (lpc = "loop" /\ fetches # <<>>)
            => (LastFetch.status_code = 200 /\ LastFetch.status \in Pending)
    /\ (lpc = "returned" /\ loop_ret # ReturnedNone)
            => /\ LastFetch.status_code = 200
               /\ LastFetch.status \notin Pending
               /\ loop_ret.kind = "value"
               /\ loop_ret.value = IF loop = "get_provisioning_results"
                                     THEN LastFetch ELSE LastFetch.response
C19_Witness ==
    /\ loop = "get_provisioning_results" /\ lpc = "returned"
    /\ Len(fetches) = 3 /\ fetches[2].status = "IN_PROGRESS"
    /\ loop_ret = Returned(Fetch(200, "OTHER", 3))

AllOk(dev_list) == \A k \in 1..Len(dev_list) : DevRes(dev_list[k]) = "OK"

\* C21: update_device_list_err with an empty error map gives the list that
\* update_device_list_ok gives on the same batch; on a batch as read from the
\* CSV every record is "OK".
C21_EmptyMapIsOk ==
    /\ (ppc = "stamped" /\ err_json = <<>>)
            => /\ device_list = update_device_list_ok(dev_before)
               /\ AllOk(device_list) /\ Len(device_list) = Len(dev_before)
               /\ warnings = <<>>
    /\ ppc \in {"read", "stamped", "marked_ok"}
            => LET again == update_device_list_err(device_list, <<>>)
               IN ~again.raised /\ again.list = update_device_list_ok(device_list)
C21_Witness ==
    /\ ppc = "stamped" /\ err_json = <<>> /\ Len(dev_before) = MaxBatch
    /\ device_list = [i \in 1..MaxBatch |-> <<RowId(i), "OK">>]

(***************************************************************************)
(* Further claims about do_provisioning (SpecProv).                        *)
(***************************************************************************)
\* C22: a job that ended SUCCEEDED is reported with every record of the
\* batch "OK", and do_provisioning returns PERFORMED_SUCCESSFULLY.
C22_SucceededAllOk ==
    (Ended /\ job_status = "SUCCEEDED")
        => /\ ppc = "returned"
           /\ report.kind = "results" /\ report.status = "SUCCEEDED"
           /\ report.rows = [i \in 1..Len(dev_before) |-> <<RowId(i), "OK">>]
           /\ report.err_count = 0
           /\ result = "PERFORMED_SUCCESSFULLY"
C22_Witness ==
    /\ ppc = "returned" /\ job_status = "SUCCEEDED" /\ polls = 2
    /\ result = "PERFORMED_SUCCESSFULLY"
    /\ report.rows = [i \in 1..MaxBatch |-> <<RowId(i), "OK">>]

\* The phases of do_provisioning in program order.
Rank(pc) ==
    CASE pc = "start" -> 0
      [] pc = "check" -> 1
      [] pc = "submit" -> 2
      [] pc = "poll" -> 3
      [] pc = "reconcile" -> 4
      [] pc = "save" -> 5
      [] OTHER -> 6

\* C23: the phases follow the order submission, polling, stamping, report
\* and none is entered twice: the status is fetched only after a submission
\* answered 202, records are stamped only after the job left PENDING and
\* IN_PROGRESS, and the per-record report is written only after the stamping.
C23_PhaseOrder ==
    [][/\ Rank(ppc') >= Rank(ppc)
       /\ prov_result' # prov_result => (ppc = "submit" /\ polls = 0)
       /\ polls' # polls => (ppc = "poll" /\ prov_result = 202)
       /\ ppc' = "reconcile" => (ppc = "poll" /\ job_status' \notin Pending)
       /\ (ppc # "start" /\ device_list' # device_list)
            => (ppc = "reconcile" /\ lpc = "returned" /\ polls' = polls
                /\ job_status \notin Pending \cup {"none"})
       /\ (report'.kind = "results" /\ report.kind # "results")
            => (ppc = "save" /\ device_list' = device_list /\ report.kind = "none")
      ]_vars
C23_Witness ==
    /\ ppc = "returned" /\ prov_result = 202 /\ polls = 3
    /\ job_status = "FAILED" /\ report.kind = "results"
    /\ report.rows # NoList /\ Len(report.rows) = MaxBatch

\* C24: reconciliation changes result statuses only: the device list keeps
\* its length, its device ids and their order, and the report has the header
\* "Device ID,Result" followed by one id,status line per record in batch
\* order.
C24_OnlyStatusesChange ==
    /\ device_list # NoList
            => /\ Len(device_list) = Len(dev_before)
               /\ \A k \in 1..Len(device_list) :
                    DevId(device_list[k]) = DevId(dev_before[k])
    /\ (report.kind = "results" /\ report.rows # NoList)
            => /\ Len(report.lines) = Len(dev_before) + 1
               /\ report.lines[1] = <<"Device ID", "Result">>
               /\ \A k \in 1..Len(dev_before) :
                    report.lines[k + 1] = <<DevId(dev_before[k]), DevRes(device_list[k])>>
C24_Witness ==
    /\ ppc = "returned" /\ job_status = "FAILED"
    /\ report.kind = "results" /\ report.rows # NoList
    /\ report.lines = <<<<"Device ID", "Result">>, <<RowId(1), "CERT_EXPIRED">>,
                        <<RowId(2), "ERROR_UNKNOWN">>, <<RowId(3), "OK">>>>

\* The 0-based positions of the all-digit words before the first begin marker.
DigitWords(t) ==
    {i \in 0..(First(Occurrences(t, ERR_FIND_FIRST_STR)) - 1) :
        t[i + 1].kind = "word" /\ t[i + 1].isdigit}

\* C25: the error count parse_err_msg returns is the first all-digit word of
\* the text before the begin marker; without such a word the count is zero
\* and "Warning: no errors reported" is printed.
C25_FirstDigitWordIsCount ==
    (error_results.status_code = 200 /\ ~parsed.none)
        => LET t == error_results.text
               digits == DigitWords(t)
               first == IF digits = {} THEN 0 ELSE t[First(digits) + 1].int
           IN /\ ~parsed.raised => parsed.cnt = first
              /\ digits = {} => parsed.warning
              /\ parsed.warning <=> first = 0
              /\ ppc \in {"save", "returned"} => err_count = first
C25_Witness ==
    /\ ppc = "returned" /\ parsed.cnt = 3 /\ ~parsed.warning /\ err_count = 3
    /\ SubSeq(error_results.text, 1, 3) = <<Word(FALSE, 0), Word(TRUE, 3), Word(TRUE, 1)>>
    /\ result = "PERFORMED_WITH_ERRORS"

\* C27: a CSV of more than MAX_CSV_ROWS rows is refused before the
\* submission call with NOT_PERFORMED_INVALID_CSV_FORMAT, and a CSV of
\* exactly MAX_CSV_ROWS rows is accepted.
C27_BatchMaximum ==
    /\ csv_rows > MAX_CSV_ROWS
            => /\ ppc = "returned"
               /\ result = "NOT_PERFORMED_INVALID_CSV_FORMAT"
               /\ prov_result = 0 /\ polls = 0 /\ report.kind = "none"
    /\ csv_rows \in 0..MAX_CSV_ROWS
            => /\ result # "NOT_PERFORMED_INVALID_CSV_FORMAT"
               /\ Len(dev_before) = csv_rows
               /\ ppc # "start"
C27_Witness ==
    /\ csv_rows = MAX_CSV_ROWS /\ prov_result = 202 /\ ppc = "returned"
    /\ report.kind = "results" /\ Len(report.rows) = MAX_CSV_ROWS

(***************************************************************************)
(* Further claims about the poll loops (SpecPoll).                         *)
(***************************************************************************)
\* C28: every status fetch is preceded by one sleep: the loop sleeps before
\* the first fetch and exactly once between two consecutive fetches.
C28_SleepBeforeEveryFetch ==
    /\ Len(events) = 2 * Len(fetches)
    /\ \A i \in 1..Len(events) :
         events[i] = IF i % 2 = 1 THEN "sleep" ELSE "fetch"
C28_Witness ==
    /\ loop = "wait_for_cmd_status" /\ lpc = "returned" /\ Len(fetches) = 2
    /\ events = <<"sleep", "fetch", "sleep", "fetch">>

AllPending(fs) ==
    \A i \in 1..Len(fs) : fs[i].status_code = 200 /\ fs[i].status \in Pending

\* C29: a loop whose fetches succeed returns at the first status other than
\* PENDING and IN_PROGRESS; as long as every status fetched is PENDING or
\* IN_PROGRESS it has not returned, and it goes on to fetch again whatever
\* the number of polls made.
C29_PollsUntilFinal ==
    /\ [](lpc = "returned" <=> (fetches # <<>> /\ ~AllPending(fetches)))
    /\ []((lpc = "returned" /\ LastFetch.status_code = 200)
            => (loop_ret.kind = "value"
                /\ AllPending(SubSeq(fetches, 1, Len(fetches) - 1))))
    /\ \A n \in 0..(MaxPolls - 1) :
         (lpc = "loop" /\ polls = n) ~> (polls = n + 1)
C29_Witness ==
    /\ loop = "get_provisioning_results" /\ lpc = "loop" /\ polls = MaxPolls
    /\ AllPending(fetches) /\ loop_ret = NotReturned

\* ---------------------------------------------------------------------------
\* The budget of wait_for_prompt and the end of the scan (SpecWfp)
\* ---------------------------------------------------------------------------

\* C30 as stated: with a positive budget on the serial source the call ends
\* on every line stream, so every read either ends the scan or takes
\* something off the budget; a read that does neither can repeat for ever.
C30_Original ==
    [][(ReadStep /\ ser /\ timeout0 > 0) => (found' \/ timeout' < timeout)]_vars

\* C30: with a positive budget T on the serial source the budget stays within
\* 0..T, every empty read takes serial_timeout off it, and a scan that ends
\* without a token has used the budget up, so at most T empty reads are made;
\* a non-empty line without a token and a CR LF-only line leave the budget
\* as it is and the scan goes on, whatever the number of such lines.
C30_BudgetBoundsEmptyReadsOnly ==
    /\ []((wpc # "idle" /\ ser /\ timeout0 > 0)
            => (timeout \in 0..timeout0 /\ reads >= timeout0 - timeout))
    /\ []((wpc = "post" /\ ser /\ timeout0 > 0 /\ ~found) => timeout = 0)
    /\ [][(ReadStep /\ ser /\ timeout0 > 0 /\ Len(line') = 0)
            => timeout' = timeout - serial_timeout]_vars
    /\ [][(ReadStep /\ ser /\ timeout0 > 0 /\ Len(line') # 0 /\ ~found')
            => (timeout' = timeout /\ LoopCond' /\ wpc' = "scan")]_vars
C30_Witness ==
    /\ wpc = "scan" /\ ser /\ timeout0 = 1 /\ timeout = 1 /\ ~found
    /\ reads = MaxReads /\ line = LinePartial
    /\ Len(echoed) >= MaxReads - 1

\* ---------------------------------------------------------------------------
\* The order of writes and waits in a session (SpecSession)
\* ---------------------------------------------------------------------------

\* C26: in a session of diap.py or certifcate_installer.py every write to the
\* device but the last is directly followed by a returned wait_for_prompt,
\* and no write is made while a call of wait_for_prompt is outstanding.
C26_HalfDuplex ==
    /\ [](\A i \in 1..(Len(ops) - 1) :
            ops[i].op = "write" => ops[i + 1].op = "wait")
    /\ [][(Len(ops') > Len(ops) /\ ops'[Len(ops')].op = "write")
            => (~scanning /\ ~scanning')]_vars
C26_Witness ==
    /\ script = "diap" /\ is_gateway /\ spc = "exit" /\ attempts = 1
    /\ Len(ops) = 19
    /\ ops[3] = Write("password") /\ ops[5].op = "wait" /\ ops[6] = Write("password")
    /\ ops[18] = Write("logout") /\ ops[19].op = "wait"

(***************************************************************************)
(* Further claims about the result of do_provisioning (SpecProv).          *)
(***************************************************************************)

\* C31: do_provisioning returns PERFORMED_WITH_ERRORS exactly when the job
\* ended FAILED, and returns PERFORMED_SUCCESSFULLY only when the job ended
\* SUCCEEDED and every record of the report is "OK".
C31_ResultMatchesJobStatus ==
    ppc = "returned" =>
        /\ (result = "PERFORMED_WITH_ERRORS") <=> (job_status = "FAILED")
        /\ (result = "PERFORMED_SUCCESSFULLY")
              => /\ job_status = "SUCCEEDED"
                 /\ report.kind = "results"
                 /\ report.rows # NoList /\ AllOk(report.rows)

(***************************************************************************)
(* Further claims about update_device_list_err (SpecRecon).                *)
(***************************************************************************)
MsgOf(a) ==
    IF err_json[a][1] = "" \/ err_json[a][1] = " "
      THEN "ERROR_UNKNOWN" ELSE err_json[a][1]

\* C32: after update_device_list_err returned, a record whose in-range index
\* is listed under several messages carries the message of the last of them
\* in the map's order ("ERROR_UNKNOWN" for an empty or single-space message),
\* and no listed record is left empty or "OK".
C32_LastMessageWins ==
    ppc = "stamped" =>
        \A k \in 1..Len(device_list) :
            /\ Cardinality(ItemsFor(k)) >= 2
                  => DevRes(device_list[k]) = MsgOf(LastItemFor(k))
            /\ ItemsFor(k) # {} => DevRes(device_list[k]) \notin {"", "OK"}

(***************************************************************************)
(* Further claims about the capture of wait_for_prompt (SpecWfp).          *)
(***************************************************************************)

\* C33: the read that ends the scan leaves the captured output as it was,
\* and a captured line holds the capture token and neither the success nor
\* the failure token; so a success line that also holds the capture token
\* ends the scan with retval True and nothing captured.
C33_EndingLineNotCaptured ==
    /\ [][(ReadStep /\ found') => output' = output]_vars
    /\ [](output # None
            => (HasCapture(output) /\ ~HasSuccess(output) /\ ~HasFailure(output)))
    /\ []((wpc = "post" /\ reads = 1 /\ found /\ HasCapture(line))
            => (output = None /\ retval = HasSuccess(line)))
C33_Witness ==
    /\ wpc = "post" /\ reads = 1 /\ line = LineTokenOK
    /\ val1 = TokOKCR /\ store = TokATTEST
    /\ found /\ retval /\ output = None

\* A line with the capture token and neither terminating token.
CaptureLine(l) == HasCapture(l) /\ ~HasSuccess(l) /\ ~HasFailure(l)
CaptureLines == SelectSeq(echoed, CaptureLine)

C35_CsvWithinBounds ==
    /\ [](/\ Len(csv_file) <= MAX_CSV_ROWS
          /\ Cardinality({csv_file[i] : i \in DOMAIN csv_file}) = Len(csv_file))
    /\ [][\/ csv_file' = csv_file
          \/ /\ Len(csv_file) < MAX_CSV_ROWS
             /\ \E id \in CsvDevIds :
                  /\ csv_file' = Append(csv_file, id)
                  /\ \A i \in DOMAIN csv_file : csv_file[i] # id]_vars

(***************************************************************************)
(* Further claims about the sessions (SpecSession).                        *)
(***************************************************************************)
ATCommands ==
    {"AT+CFUN=4", "AT%ATTESTTOKEN", "AT+CGSN", "AT+CGMR", "AT%CMNG=3", "AT%CMNG=0"}

\* C36: when the wait after AT+CFUN=4 returned without Success, the session
\* is at its exit (on a gateway after the cleanup of lines 443-451) and no
\* AT command was written after that wait.
C36_AbortsWhenCfunFails ==
    \A i \in 1..(Len(ops) - 1) :
        (ops[i] = Write("AT+CFUN=4") /\ ~ops[i + 1].retval)
            => /\ spc \in {"exit", "447", "448", "449", "450"}
               /\ \A j \in (i + 2)..Len(ops) : ops[j].cmd \notin ATCommands

(***************************************************************************)
(* The device lookup of do_provisioning (SpecProv).                        *)
(***************************************************************************)

\* C37: with do_check and a batch of one record the device is looked up and
\* the batch is submitted only after a 404: a 200 returns
\* NOT_PERFORMED_DEVICE_EXISTS and any other status returns
\* NOT_PERFORMED_DEV_CHK_FAILED, both with no submission made; with more than
\* one record no lookup is made and the batch is submitted.
C37_CheckGatesSubmission ==
    /\ (do_check /\ csv_rows = 1 /\ ppc \notin {"start", "check"})
          => /\ fetch_result \in FetchDeviceCodes
             /\ fetch_result = 200
                   => /\ ppc = "returned" /\ prov_result = 0
                      /\ result = "NOT_PERFORMED_DEVICE_EXISTS"
             /\ fetch_result \notin {200, 404}
                   => /\ ppc = "returned" /\ prov_result = 0
                      /\ result = "NOT_PERFORMED_DEV_CHK_FAILED"
             /\ fetch_result = 404 => (ppc = "submit" \/ prov_result # 0)
    /\ (do_check /\ csv_rows \in 2..MAX_CSV_ROWS /\ ppc \notin {"start", "check"})
          => (fetch_result = 0 /\ (ppc = "submit" \/ prov_result # 0))
C37_Witness ==
    /\ do_check /\ csv_rows = 1 /\ fetch_result = 404
    /\ prov_result = 202 /\ ppc = "returned" /\ report.kind = "results"

(***************************************************************************)
(* The two line sources of wait_for_prompt (SpecWfp).                      *)
(***************************************************************************)

\* C38: on the serial source and on the RTT source alike, a call with a
\* non-zero budget that ended without reading a success or failure line has
\* returned normally with retval False and has reported the timeout.
C38_SameOutcomeOnBothSources ==
    (wpc \in {"returned", "raised"} /\ timeout0 # 0 /\ ~found)
        => /\ wpc = "returned"
           /\ ret = <<FALSE, output>>
           /\ "Serial timeout" \in printed

====
